---- MODULE Spec2Model ----
(***************************************************************************)
(* mogo: operator-method desugaring for Go (cmd/mogo/mogo.go) on top of    *)
(* the generic syntax tree traversal ast.Apply / ast.SetField (apply.go,   *)
(* kept in this repository as lines 38-402 of cmd/mogo/point.go).          *)
(*                                                                         *)
(* The syntax tree is a heap of nodes.  A node reference is a positive     *)
(* heap index; 0 is the nil interface value; a negative number -k is the   *)
(* nil pointer of the k-th node kind (a typed nil held in a Node           *)
(* interface).  Every node is a record with the fields                     *)
(*    kind : the dynamic type of the node                                  *)
(*    name : Ident.Name, BinaryExpr.Op or AssignStmt.Tok ("" otherwise)    *)
(*    f    : slot name -> node reference, or sequence of node references   *)
(***************************************************************************)
EXTENDS Integers, Sequences, FiniteSets, TLC

VARIABLES
    heap,      \* the nodes allocated so far (sequence of node records)
    file,      \* main: the *ast.File being rewritten; Apply: the root argument
    input,     \* the program text given on the command line (as a term)
    pc,        \* position of main / of the caller of Apply
    progress,  \* main's loop variable progress
    err,       \* TRUE iff the last typecheck returned err != nil
    pkg,       \* method sets found by the last typecheck
    tmap,      \* types recorded by the last typecheck (node -> type)
    sweeps,    \* number of rewrite sweeps started so far
    nrep,      \* number of SetField calls made by the last sweep
    cb,        \* behaviour of the client's callbacks (Apply on its own)
    trace,     \* callbacks invoked by the last Apply (sweep or client's)
    sets,      \* SetField calls made by the last Apply (sweep or client's)
    ret,       \* value returned by the last Apply (Apply on its own)
    outcome    \* how the last Apply ended (Apply on its own)

vars == <<heap, file, input, pc, progress, err, pkg, tmap, sweeps, nrep,
          cb, trace, sets, ret, outcome>>

(***************************************************************************)
(* Bounds of the model.                                                    *)
(***************************************************************************)
\* largest number of operator expressions in a generated statement
MaxOps == 1
\* cap of the sweep counter
MaxSweeps == 6

NIL == 0

\* the application struct itself, as the parent of the root
APP == 0

(***************************************************************************)
(* methName (mogo.go:129-137).                                             *)
(***************************************************************************)
methName ==
    ("+" :> "ADD__") @@ ("-" :> "SUB__") @@ ("*" :> "MUL__") @@
    ("/" :> "QUO__") @@ ("%" :> "REM__") @@ ("[]" :> "AT__") @@
    ("[]=" :> "ATSET__")

(***************************************************************************)
(* The cases of application.apply's type switch (apply.go), in source      *)
(* order.  Each slot is <<field name, is a list, pointer kind>>: the       *)
(* pointer kind is the node kind of a field declared as a pointer to a     *)
(* concrete node type ("" for a field of interface type or a list).        *)
(***************************************************************************)
S(name) == <<name, FALSE, "">>
P(name, kind) == <<name, FALSE, kind>>
L(name) == <<name, TRUE, "">>

SlotTab ==
    ("Comment" :> <<>>) @@
    ("CommentGroup" :> <<L("List")>>) @@
    ("Field" :> <<P("Doc", "CommentGroup"), L("Names"), S("Type"),
                  P("Tag", "BasicLit"), P("Comment", "CommentGroup")>>) @@
    ("FieldList" :> <<L("List")>>) @@
    ("BadExpr" :> <<>>) @@ ("Ident" :> <<>>) @@ ("BasicLit" :> <<>>) @@
    ("Ellipsis" :> <<S("Elt")>>) @@
    ("FuncLit" :> <<P("Type", "FuncType"), P("Body", "BlockStmt")>>) @@
    ("CompositeLit" :> <<S("Type"), L("Elts")>>) @@
    ("ParenExpr" :> <<S("X")>>) @@
    ("SelectorExpr" :> <<S("X"), P("Sel", "Ident")>>) @@
    ("IndexExpr" :> <<S("X"), S("Index")>>) @@
    ("SliceExpr" :> <<S("X"), S("Low"), S("High"), S("Max")>>) @@
    ("TypeAssertExpr" :> <<S("X"), S("Type")>>) @@
    ("CallExpr" :> <<S("Fun"), L("Args")>>) @@
    ("StarExpr" :> <<S("X")>>) @@
    ("UnaryExpr" :> <<S("X")>>) @@
    ("BinaryExpr" :> <<S("X"), S("Y")>>) @@
    ("KeyValueExpr" :> <<S("Key"), S("Value")>>) @@
    ("ArrayType" :> <<S("Len"), S("Elt")>>) @@
    ("StructType" :> <<P("Fields", "FieldList")>>) @@
    ("FuncType" :> <<P("Params", "FieldList"), P("Results", "FieldList")>>) @@
    ("InterfaceType" :> <<P("Methods", "FieldList")>>) @@
    ("MapType" :> <<S("Key"), S("Value")>>) @@
    ("ChanType" :> <<S("Value")>>) @@
    ("BadStmt" :> <<>>) @@
    ("DeclStmt" :> <<S("Decl")>>) @@
    ("EmptyStmt" :> <<>>) @@
    ("LabeledStmt" :> <<P("Label", "Ident"), S("Stmt")>>) @@
    ("ExprStmt" :> <<S("X")>>) @@
    ("SendStmt" :> <<S("Chan"), S("Value")>>) @@
    ("IncDecStmt" :> <<S("X")>>) @@
    ("AssignStmt" :> <<L("Lhs"), L("Rhs")>>) @@
    ("GoStmt" :> <<P("Call", "CallExpr")>>) @@
    ("DeferStmt" :> <<P("Call", "CallExpr")>>) @@
    ("ReturnStmt" :> <<L("Results")>>) @@
    ("BranchStmt" :> <<P("Label", "Ident")>>) @@
    ("BlockStmt" :> <<L("List")>>) @@
    ("IfStmt" :> <<S("Init"), S("Cond"), P("Body", "BlockStmt"), S("Else")>>) @@
    ("CaseClause" :> <<L("List"), L("Body")>>) @@
    ("SwitchStmt" :> <<S("Init"), S("Tag"), P("Body", "BlockStmt")>>) @@
    ("TypeSwitchStmt" :> <<S("Init"), S("Assign"), P("Body", "BlockStmt")>>) @@
    ("CommClause" :> <<S("Comm"), L("Body")>>) @@
    ("SelectStmt" :> <<P("Body", "BlockStmt")>>) @@
    ("ForStmt" :> <<S("Init"), S("Cond"), S("Post"), P("Body", "BlockStmt")>>) @@
    ("RangeStmt" :> <<S("Key"), S("Value"), S("X"), P("Body", "BlockStmt")>>) @@
    ("ImportSpec" :> <<P("Doc", "CommentGroup"), P("Name", "Ident"),
                       P("Path", "BasicLit"), P("Comment", "CommentGroup")>>) @@
    ("ValueSpec" :> <<P("Doc", "CommentGroup"), L("Names"), S("Type"),
                      L("Values"), P("Comment", "CommentGroup")>>) @@
    ("TypeSpec" :> <<P("Doc", "CommentGroup"), P("Name", "Ident"), S("Type"),
                     P("Comment", "CommentGroup")>>) @@
    ("BadDecl" :> <<>>) @@
    ("GenDecl" :> <<P("Doc", "CommentGroup"), L("Specs")>>) @@
    ("FuncDecl" :> <<P("Doc", "CommentGroup"), P("Recv", "FieldList"),
                     P("Name", "Ident"), P("Type", "FuncType"),
                     P("Body", "BlockStmt")>>) @@
    ("File" :> <<P("Doc", "CommentGroup"), P("Name", "Ident"), L("Decls")>>)

\* the kinds whose case tests the pointer for nil before using it
NilGuarded == {"CommentGroup", "FieldList"}

\* the kinds a typed nil pointer can have, numbered
PtrKinds ==
    <<"CommentGroup", "BasicLit", "FuncType", "BlockStmt", "Ident",
      "FieldList", "CallExpr">>

NilOf(kind) ==
    IF kind = "" THEN NIL
    ELSE 0 - (CHOOSE k \in 1..Len(PtrKinds) : PtrKinds[k] = kind)

\* dynamic type of a node reference ("nil" for the nil interface)
KindOf(h, n) ==
    IF n > 0 THEN h[n].kind
    ELSE IF n = NIL THEN "nil"
    ELSE PtrKinds[0 - n]

IsNilPtr(n) == n < 0

\* the nodes held in the fields of n that apply visits
Children(h, n) ==
    IF h[n].kind = "Package" THEN {h[n].f[x] : x \in DOMAIN h[n].f}
    ELSE
    UNION {IF SlotTab[h[n].kind][k][2]
           THEN {h[n].f[SlotTab[h[n].kind][k][1]][j] :
                   j \in 1..Len(h[n].f[SlotTab[h[n].kind][k][1]])}
           ELSE {h[n].f[SlotTab[h[n].kind][k][1]]}
           : k \in 1..Len(SlotTab[h[n].kind])} \ {NIL}

RECURSIVE Reach(_, _)

\* the nodes of the tree below and including n
Reach(h, n) == {n} \cup UNION {Reach(h, c) : c \in Children(h, n)}

(***************************************************************************)
(* The state of one traversal: the application struct of apply.go          *)
(* (root = a.Node, pre, post), the heap it works on, the variables its     *)
(* callbacks close over (progress, pkg, tmap, cb) and how far the          *)
(* traversal has got:                                                      *)
(*   status = "run"    still traversing                                    *)
(*            "abort"  panic(abort) is unwinding                           *)
(*            "fault"  another panic is unwinding                          *)
(*   ret    = result of the callback called last                           *)
(***************************************************************************)
NewApplication(h, root, pre, post, pk, tm, c) ==
    [heap |-> h, root |-> root, pre |-> pre, post |-> post,
     status |-> "run", ret |-> TRUE, progress |-> FALSE, nrep |-> 0,
     pkg |-> pk, tmap |-> tm, cb |-> c, trace |-> <<>>, sets |-> <<>>]

\* a new node: &ast.T{...}
Alloc(st, rec) == [st EXCEPT !.heap = Append(@, rec)]

Node(kind, name, f) == [kind |-> kind, name |-> name, f |-> f]

NoSlots == [x \in {} |-> 0]

(***************************************************************************)
(* SetField (apply.go): parent.name = n, or parent.name[index] = n.        *)
(* A nil pointer is stored as the nil of its slot.  nrep counts the calls, *)
(* and sets keeps a record of each: the locator, the node put there, the   *)
(* number of callbacks called so far, and whether the parent was part of   *)
(* the tree under the root when the call was made.                         *)
(***************************************************************************)
\* what the field parent.name, or its element parent.name[index], holds
\* (for a Package: the file that Files holds under the name)
Occupant(st, parent, name, index) ==
    IF parent = APP THEN st.root
    ELSE IF index >= 0 THEN st.heap[parent].f[name][index + 1]
    ELSE st.heap[parent].f[name]

SetCall(st, parent, name, index, n1) ==
    [parent |-> parent, name |-> name, index |-> index, n1 |-> n1,
     old |-> Occupant(st, parent, name, index),
     when |-> Len(st.trace),
     attached |-> parent = APP \/ parent \in Reach(st.heap, st.root)]

\* a SetField that sets a copy of the field: the parent keeps its node
SetFieldOnCopy(st, parent, name, index, n1) ==
    [st EXCEPT !.nrep = @ + 1,
               !.sets = Append(@, SetCall(st, parent, name, index, n1))]

SetField(st, parent, name, index, n1) ==
    IF parent # APP /\ st.heap[parent].kind = "Package"
    THEN \* no field of Package has a file's name: Set on the zero Value panics
         [st EXCEPT !.status = "fault",
                    !.sets = Append(@, SetCall(st, parent, name, index, n1))]
    ELSE IF parent = APP
    THEN [st EXCEPT !.root = n1, !.nrep = @ + 1,
                    !.sets = Append(@, SetCall(st, parent, name, index, n1))]
    ELSE IF index >= 0
         THEN [st EXCEPT !.heap[parent].f[name][index + 1] =
                             IF n1 < 0 THEN NIL ELSE n1,
                         !.nrep = @ + 1,
                         !.sets = Append(@, SetCall(st, parent, name, index, n1))]
         ELSE [st EXCEPT !.heap[parent].f[name] = IF n1 < 0 THEN NIL ELSE n1,
                         !.nrep = @ + 1,
                         !.sets = Append(@, SetCall(st, parent, name, index, n1))]

(***************************************************************************)
(* types.LookupFieldOrMethod as mogo uses it: is there a method named m    *)
(* in the method set of type t.  The nil type (an expression the type      *)
(* checker recorded nothing for) has no methods.                           *)
(***************************************************************************)
\* a type map that takes every expression it has no entry for as a Point
TypeAtOrPoint(tm, n) == IF n \in DOMAIN tm THEN tm[n] ELSE "Point"

TypeAt(tm, n) == IF n \in DOMAIN tm THEN tm[n] ELSE ""

\* a lookup that finds no method of the interface type Adder
LookupInConcreteTypes(pk, t, m) == t \notin {"", "Adder"} /\ <<t, m>> \in pk

LookupFieldOrMethod(pk, t, m) == t # "" /\ <<t, m>> \in pk

(***************************************************************************)
(* rewrite (mogo.go:120-127): the call recv.METH(args...), or no call      *)
(* when the type of recv has no method for the operator.                   *)
(* Result: [st, r] with r = NIL for "return nil".                          *)
(***************************************************************************)
rewriteSwapsOperands(st, recv, opname, args) ==
    IF \/ opname \notin DOMAIN methName
       \/ ~LookupFieldOrMethod(st.pkg, TypeAt(st.tmap, recv), methName[opname])
    THEN [st |-> st, r |-> NIL]
    ELSE LET id == Len(st.heap)
             s1 == Alloc(st, Node("Ident", methName[opname], NoSlots))
             s2 == Alloc(s1, Node("SelectorExpr", "",
                                  [X |-> args[Len(args)], Sel |-> id + 1]))
             s3 == Alloc(s2, Node("CallExpr", "",
                                  [Fun |-> id + 2,
                                   Args |-> [args EXCEPT ![Len(args)] = recv]]))
         IN  [st |-> s3, r |-> id + 3]

rewriteWithoutLookup(st, recv, opname, args) ==
    IF opname \notin DOMAIN methName
    THEN [st |-> st, r |-> NIL]
    ELSE LET id == Len(st.heap)
             s1 == Alloc(st, Node("Ident", methName[opname], NoSlots))
             s2 == Alloc(s1, Node("SelectorExpr", "",
                                  [X |-> recv, Sel |-> id + 1]))
             s3 == Alloc(s2, Node("CallExpr", "",
                                  [Fun |-> id + 2, Args |-> args]))
         IN  [st |-> s3, r |-> id + 3]

rewrite(st, recv, opname, args) ==
    IF \/ opname \notin DOMAIN methName
       \/ ~LookupFieldOrMethod(st.pkg, TypeAt(st.tmap, recv), methName[opname])
    THEN [st |-> st, r |-> NIL]
    ELSE LET id == Len(st.heap)
             s1 == Alloc(st, Node("Ident", methName[opname], NoSlots))
             s2 == Alloc(s1, Node("SelectorExpr", "",
                                  [X |-> recv, Sel |-> id + 1]))
             s3 == Alloc(s2, Node("CallExpr", "",
                                  [Fun |-> id + 2, Args |-> args]))
         IN  [st |-> s3, r |-> id + 3]

Fault(st) == [st EXCEPT !.status = "fault"]

Return(st, b) == [st EXCEPT !.ret = b]

(***************************************************************************)
(* The normalizer's pre callback (mogo.go:39-60): operator method names    *)
(* of interface types and of function declarations with a receiver become  *)
(* ordinary identifiers; the callback returns false at a function          *)
(* declaration.                                                            *)
(***************************************************************************)
\* a renaming that maps the canonical identifiers back to the operators
CanonicalOrBack(name) ==
    IF name \in DOMAIN methName THEN methName[name]
    ELSE IF \E op \in DOMAIN methName : methName[op] = name
    THEN CHOOSE op \in DOMAIN methName : methName[op] = name
    ELSE name

Canonical(name) == IF name \in DOMAIN methName THEN methName[name] ELSE name

Rename(st, idents) ==
    LET h == st.heap
    IN  [st EXCEPT !.heap =
            [i \in DOMAIN h |->
                IF i \in idents
                THEN [h[i] EXCEPT !.name = Canonical(h[i].name)]
                ELSE h[i]]]

\* a normalizer that goes inside functions
normalizePreEnters(st, parent, name, index, n) ==
    IF n <= 0 THEN Return(st, TRUE)
    ELSE LET nd == st.heap[n] IN
         CASE nd.kind = "InterfaceType" ->
                LET list == st.heap[nd.f.Methods].f.List
                    names == UNION {{st.heap[list[k]].f.Names[j] :
                                       j \in 1..Len(st.heap[list[k]].f.Names)} :
                                    k \in 1..Len(list)}
                IN  Return(Rename(st, names), TRUE)
           [] nd.kind = "FuncDecl" ->
                IF nd.f.Recv # NIL
                THEN Return(Rename(st, {nd.f.Name}), TRUE)
                ELSE Return(st, TRUE)
           [] OTHER -> Return(st, TRUE)

normalizePre(st, parent, name, index, n) ==
    IF n <= 0 THEN Return(st, TRUE)
    ELSE LET nd == st.heap[n] IN
         CASE nd.kind = "InterfaceType" ->
                IF nd.f.Methods = NIL THEN Fault(st)
                ELSE LET list == st.heap[nd.f.Methods].f.List
                         names == UNION {{st.heap[list[k]].f.Names[j] :
                                            j \in 1..Len(st.heap[list[k]].f.Names)} :
                                         k \in 1..Len(list)}
                     IN  Return(Rename(st, names), TRUE)
           [] nd.kind = "FuncDecl" ->
                IF nd.f.Recv # NIL
                THEN IF nd.f.Name = NIL THEN Fault(st)
                     ELSE Return(Rename(st, {nd.f.Name}), FALSE)
                ELSE Return(st, FALSE)
           [] OTHER -> Return(st, TRUE)

(***************************************************************************)
(* The sweep's pre callback (mogo.go:70-84): the element-write rule.       *)
(***************************************************************************)
\* mogo.go:78-79, once rewrite has returned rw
rewritePreSet(rw, parent, name, index) ==
    IF rw.r = NIL THEN Return(rw.st, TRUE)
    ELSE Return([SetField(Alloc(rw.st, Node("ExprStmt", "", [X |-> rw.r])),
                          parent, name, index, Len(rw.st.heap) + 1)
                    EXCEPT !.progress = TRUE], TRUE)

rewritePreAnyArity(st, parent, name, index, n) ==
    IF n <= 0 \/ st.heap[n].kind # "AssignStmt" THEN Return(st, TRUE)
    ELSE IF Len(st.heap[n].f.Lhs) < 1 \/ Len(st.heap[n].f.Rhs) < 1
    THEN Return(st, TRUE)
    ELSE IF KindOf(st.heap, st.heap[n].f.Lhs[1]) # "IndexExpr"
    THEN Return(st, TRUE)
    ELSE rewritePreSet(rewrite(st, st.heap[st.heap[n].f.Lhs[1]].f.X, "[]=",
                               <<st.heap[st.heap[n].f.Lhs[1]].f.Index,
                                 st.heap[n].f.Rhs[1]>>),
                       parent, name, index)

rewritePre(st, parent, name, index, n) ==
    IF n <= 0 \/ st.heap[n].kind # "AssignStmt" THEN Return(st, TRUE)
    ELSE IF Len(st.heap[n].f.Lhs) # 1 \/ Len(st.heap[n].f.Rhs) # 1
    THEN Return(st, TRUE)
    ELSE IF KindOf(st.heap, st.heap[n].f.Lhs[1]) # "IndexExpr"
    THEN Return(st, TRUE)
    ELSE rewritePreSet(rewrite(st, st.heap[st.heap[n].f.Lhs[1]].f.X, "[]=",
                               <<st.heap[st.heap[n].f.Lhs[1]].f.Index,
                                 st.heap[n].f.Rhs[1]>>),
                       parent, name, index)

(***************************************************************************)
(* The sweep's post callback (mogo.go:85-98): the element-read rule and    *)
(* the binary operator rule.                                               *)
(***************************************************************************)
\* mogo.go:93-97, once rewrite has returned rw
rewritePostKeepsFlag(rw, parent, name, index) ==
    IF rw.r = NIL THEN Return(rw.st, TRUE)
    ELSE Return(SetField(rw.st, parent, name, index, rw.r), TRUE)

rewritePostSet(rw, parent, name, index) ==
    IF rw.r = NIL THEN Return(rw.st, TRUE)
    ELSE Return([SetField(rw.st, parent, name, index, rw.r)
                    EXCEPT !.progress = TRUE], TRUE)

rewritePost(st, parent, name, index, n) ==
    IF n > 0 /\ st.heap[n].kind = "IndexExpr"
    THEN rewritePostSet(rewrite(st, st.heap[n].f.X, "[]",
                                <<st.heap[n].f.Index>>),
                        parent, name, index)
    ELSE IF n > 0 /\ st.heap[n].kind = "BinaryExpr"
    THEN rewritePostSet(rewrite(st, st.heap[n].f.X, st.heap[n].name,
                                <<st.heap[n].f.Y>>),
                        parent, name, index)
    ELSE Return(st, TRUE)

(***************************************************************************)
(* A client's callbacks, for Apply on its own.  cb says what they do:      *)
(*   cb.preFalse, cb.postFalse : the nodes at which pre / post return      *)
(*                               false                                     *)
(*   cb.faultAt, cb.faultIn    : the node at which the callback cb.faultIn *)
(*                               ("pre" or "post") panics                  *)
(*   cb.setAt, cb.setIn        : the node which the callback cb.setIn      *)
(*                               replaces by a new identifier, with        *)
(*                               SetField                                  *)
(*   cb.order                  : the order in which range yields the files *)
(*                               of a Package (the runtime's choice)       *)
(* Each call of a callback, a client's or main's, is appended to the       *)
(* trace, with what the field named by its arguments holds at the call.    *)
(***************************************************************************)
Event(st, what, parent, name, index, n) ==
    [cb |-> what, parent |-> parent, name |-> name, index |-> index, n |-> n,
     at |-> Occupant(st, parent, name, index)]

Called(st, what, parent, name, index, n) ==
    [st EXCEPT !.trace = Append(@, Event(st, what, parent, name, index, n))]

\* the callback's work once the call is on the trace
clientAct(st, what, stops, parent, name, index, n) ==
    IF n > 0 /\ st.cb.faultIn = what /\ st.cb.faultAt = n THEN Fault(st)
    ELSE IF n > 0 /\ st.cb.setIn = what /\ st.cb.setAt = n
    THEN Return(SetField(Alloc(st, Node(st.heap[n].kind, "z", st.heap[n].f)),
                         parent, name, index, Len(st.heap) + 1),
                n \notin stops)
    ELSE Return(st, n \notin stops)

clientCall(st, what, stops, parent, name, index, n) ==
    clientAct(Called(st, what, parent, name, index, n),
              what, stops, parent, name, index, n)

clientPre(st, parent, name, index, n) ==
    clientCall(st, "pre", st.cb.preFalse, parent, name, index, n)

clientPost(st, parent, name, index, n) ==
    clientCall(st, "post", st.cb.postFalse, parent, name, index, n)

\* a.pre(parent, name, index, n) / a.post(parent, name, index, n)
CallPre(st, parent, name, index, n) ==
    CASE st.pre = "normalize" ->
           normalizePre(Called(st, "pre", parent, name, index, n),
                        parent, name, index, n)
      [] st.pre = "rewrite" ->
           rewritePre(Called(st, "pre", parent, name, index, n),
                      parent, name, index, n)
      [] st.pre = "client" -> clientPre(st, parent, name, index, n)

CallPost(st, parent, name, index, n) ==
    CASE st.post = "rewrite" ->
           rewritePost(Called(st, "post", parent, name, index, n),
                       parent, name, index, n)
      [] st.post = "client" -> clientPost(st, parent, name, index, n)

(***************************************************************************)
(* application.apply (apply.go): pre, the children in the order of the     *)
(* node's case, post.  A panic (status # "run") unwinds through every      *)
(* pending call.  The range loops of applyIdentList, applyExprList,        *)
(* applyStmtList, applyDeclList and of the CommentGroup, FieldList and     *)
(* GenDecl cases fix the length of the list when they start and read each  *)
(* element when they reach it.                                             *)
(***************************************************************************)
RECURSIVE apply(_, _, _, _, _)
RECURSIVE applyChildren(_, _, _, _)
RECURSIVE applyList(_, _, _, _, _)

applyList(st, parent, name, i, len) ==
    IF i >= len \/ st.status # "run" THEN st
    ELSE applyList(apply(st, parent, name, i, st.heap[parent].f[name][i + 1]),
                   parent, name, i + 1, len)

applyChildren(st, n, slots, k) ==
    IF k > Len(slots) \/ st.status # "run" THEN st
    ELSE applyChildren(
             IF slots[k][2]
             THEN applyList(st, n, slots[k][1], 0, Len(st.heap[n].f[slots[k][1]]))
             ELSE apply(st, n, slots[k][1], -1,
                        IF st.heap[n].f[slots[k][1]] = NIL
                        THEN NilOf(slots[k][3])
                        ELSE st.heap[n].f[slots[k][1]]),
             n, slots, k + 1)

\* the switch of apply with the children of every case in reverse
applySwitchLastFirst(st, n, kind) ==
    IF n <= 0 \/ kind \notin DOMAIN SlotTab THEN st
    ELSE applyChildren(st, n,
             [k \in 1..Len(SlotTab[kind]) |->
                 SlotTab[kind][Len(SlotTab[kind]) + 1 - k]], 1)

\* the switch of apply: "walk children"
applySwitch(st, n, kind) ==
    IF n = NIL THEN st
    ELSE IF kind = "Package"
    THEN applyChildren(st, n, [k \in 1..Len(st.cb.order) |-> S(st.cb.order[k])], 1)
    ELSE IF kind \notin DOMAIN SlotTab THEN Fault(st)
    ELSE IF n < 0
         THEN IF kind \in NilGuarded \/ SlotTab[kind] = <<>>
              THEN st ELSE Fault(st)
         ELSE applyChildren(st, n, SlotTab[kind], 1)

applyPostResultGoesOn(st) == st

\* the last statement of apply, once a.post has returned
applyPostResult(st) ==
    IF st.status = "run" /\ ~st.ret THEN [st EXCEPT !.status = "abort"] ELSE st

\* the last statement of apply, once the children are done
applyPost(st, parent, name, index, n) ==
    IF st.status # "run" \/ st.post = "nil" THEN st
    ELSE applyPostResult(CallPost(st, parent, name, index, n))

\* apply, once a.pre has returned
applyPreResultIgnored(st, parent, name, index, n) ==
    IF st.status # "run" THEN st
    ELSE IF ~st.ret THEN applyPost(st, parent, name, index, n)
    ELSE applyPost(applySwitch(st, n, KindOf(st.heap, n)),
                   parent, name, index, n)

\* an apply that goes on with the node the field holds once pre has returned
applyPreResultEntersNew(st, parent, name, index, n) ==
    IF st.status # "run" \/ ~st.ret THEN st
    ELSE applyPost(applySwitch(st, Occupant(st, parent, name, index),
                               KindOf(st.heap, Occupant(st, parent, name, index))),
                   parent, name, index, n)

applyPreResult(st, parent, name, index, n) ==
    IF st.status # "run" \/ ~st.ret THEN st
    ELSE applyPost(applySwitch(st, n, KindOf(st.heap, n)),
                   parent, name, index, n)

apply(st, parent, name, index, n) ==
    IF st.status # "run" THEN st
    ELSE applyPreResult(IF st.pre = "nil" THEN Return(st, TRUE)
                        ELSE CallPre(st, parent, name, index, n),
                        parent, name, index, n)

(***************************************************************************)
(* Apply (apply.go): the traversal from the root, under the deferred       *)
(* function that recovers the abort panic and raises every other panic     *)
(* again.  The result of Apply is                                          *)
(*   how = "return", ret = a.Node   when the traversal ran to its end,     *)
(*   how = "return", ret = NIL      when the abort panic was recovered:    *)
(*                                  the return statement was not reached,  *)
(*                                  so the result is the zero Node,        *)
(*   how = "panic"                  when another panic passes through.     *)
(***************************************************************************)
ApplyResult(st) ==
    [st |-> st,
     how |-> IF st.status = "fault" THEN "panic" ELSE "return",
     ret |-> IF st.status = "run" THEN st.root ELSE NIL]

Apply(h, root, pre, post, pk, tm, c) ==
    ApplyResult(apply(NewApplication(h, root, pre, post, pk, tm, c),
                      APP, "Node", -1, root))

(***************************************************************************)
(* Programs.  A program is a prelude of declarations and one statement in  *)
(* the body of func main.  Statements and expressions are written as       *)
(* terms:                                                                  *)
(*   <<"Ident", name>>               <<"BinaryExpr", op, x, y>>            *)
(*   <<"IndexExpr", x, index>>       <<"SelectorExpr", x, sel>>            *)
(*   <<"CallExpr", fun, <<args>>>>   <<"ExprStmt", x>>                     *)
(*   <<"AssignStmt", tok, <<lhs>>, <<rhs>>>>                               *)
(* Build is the parser (parser.ParseFile, mogo.go:35) on such a term and   *)
(* Term reads a term back from the heap.                                   *)
(***************************************************************************)
Id(name) == <<"Ident", name>>
Bin(op, x, y) == <<"BinaryExpr", op, x, y>>
Idx(x, i) == <<"IndexExpr", x, i>>
Sel(x, name) == <<"SelectorExpr", x, name>>
Call(fun, args) == <<"CallExpr", fun, args>>
Expr(x) == <<"ExprStmt", x>>
Assign(tok, lhs, rhs) == <<"AssignStmt", tok, lhs, rhs>>
Println(x) == Expr(Call(Id("println"), <<x>>))

RECURSIVE Build(_, _)
RECURSIVE BuildList(_, _, _)

\* result: [h |-> heap, id |-> the node built last]
Build(h, t) ==
    CASE t[1] = "Ident" ->
           [h |-> Append(h, Node("Ident", t[2], NoSlots)), id |-> Len(h) + 1]
      [] t[1] = "BinaryExpr" ->
           LET x == Build(h, t[3])
               y == Build(x.h, t[4])
           IN  [h |-> Append(y.h, Node("BinaryExpr", t[2],
                                       [X |-> x.id, Y |-> y.id])),
                id |-> Len(y.h) + 1]
      [] t[1] = "IndexExpr" ->
           LET x == Build(h, t[2])
               y == Build(x.h, t[3])
           IN  [h |-> Append(y.h, Node("IndexExpr", "",
                                       [X |-> x.id, Index |-> y.id])),
                id |-> Len(y.h) + 1]
      [] t[1] = "SelectorExpr" ->
           LET x == Build(h, t[2])
               y == Build(x.h, Id(t[3]))
           IN  [h |-> Append(y.h, Node("SelectorExpr", "",
                                       [X |-> x.id, Sel |-> y.id])),
                id |-> Len(y.h) + 1]
      [] t[1] = "CallExpr" ->
           LET x == Build(h, t[2])
               y == BuildList(x.h, t[3], <<>>)
           IN  [h |-> Append(y.h, Node("CallExpr", "",
                                       [Fun |-> x.id, Args |-> y.ids])),
                id |-> Len(y.h) + 1]
      [] t[1] = "ExprStmt" ->
           LET x == Build(h, t[2])
           IN  [h |-> Append(x.h, Node("ExprStmt", "", [X |-> x.id])),
                id |-> Len(x.h) + 1]
      [] t[1] = "AssignStmt" ->
           LET x == BuildList(h, t[3], <<>>)
               y == BuildList(x.h, t[4], <<>>)
           IN  [h |-> Append(y.h, Node("AssignStmt", t[2],
                                       [Lhs |-> x.ids, Rhs |-> y.ids])),
                id |-> Len(y.h) + 1]

BuildList(h, ts, ids) ==
    IF ts = <<>> THEN [h |-> h, ids |-> ids]
    ELSE LET x == Build(h, Head(ts))
         IN  BuildList(x.h, Tail(ts), Append(ids, x.id))

RECURSIVE Term(_, _)

Term(h, n) ==
    LET nd == h[n] IN
    CASE nd.kind = "Ident" -> Id(nd.name)
      [] nd.kind = "BinaryExpr" ->
           Bin(nd.name, Term(h, nd.f.X), Term(h, nd.f.Y))
      [] nd.kind = "IndexExpr" -> Idx(Term(h, nd.f.X), Term(h, nd.f.Index))
      [] nd.kind = "SelectorExpr" -> Sel(Term(h, nd.f.X), h[nd.f.Sel].name)
      [] nd.kind = "CallExpr" ->
           Call(Term(h, nd.f.Fun),
                [k \in 1..Len(nd.f.Args) |-> Term(h, nd.f.Args[k])])
      [] nd.kind = "ExprStmt" -> Expr(Term(h, nd.f.X))
      [] nd.kind = "AssignStmt" ->
           Assign(nd.name,
                  [k \in 1..Len(nd.f.Lhs) |-> Term(h, nd.f.Lhs[k])],
                  [k \in 1..Len(nd.f.Rhs) |-> Term(h, nd.f.Rhs[k])])

(***************************************************************************)
(* Declarations, as the parser builds them.                                *)
(*   func (T) NAME() {}                   a method of T                    *)
(*   type T interface { NAME() }          an interface with one method     *)
(*   func main() { stmt }                                                  *)
(* The signatures of the methods are in Sig below.                         *)
(***************************************************************************)
FieldNode(names, type) ==
    Node("Field", "", [Doc |-> NIL, Names |-> names, Type |-> type,
                       Tag |-> NIL, Comment |-> NIL])

FuncDeclNode(recv, name, type, body) ==
    Node("FuncDecl", "", [Doc |-> NIL, Recv |-> recv, Name |-> name,
                          Type |-> type, Body |-> body])

FuncTypeNode == Node("FuncType", "", [Params |-> NIL, Results |-> NIL])

\* the declaration is the node built last
MethodDecl(h, recvType, name) ==
    LET id == Len(h) IN
    h \o << Node("Ident", recvType, NoSlots),
            FieldNode(<<>>, id + 1),
            Node("FieldList", "", [List |-> <<id + 2>>]),
            Node("Ident", name, NoSlots),
            FuncTypeNode,
            Node("BlockStmt", "", [List |-> <<>>]),
            FuncDeclNode(id + 3, id + 4, id + 5, id + 6) >>

InterfaceDecl(h, typeName, name) ==
    LET id == Len(h) IN
    h \o << Node("Ident", typeName, NoSlots),
            Node("Ident", name, NoSlots),
            FuncTypeNode,
            FieldNode(<<id + 2>>, id + 3),
            Node("FieldList", "", [List |-> <<id + 4>>]),
            Node("InterfaceType", "", [Methods |-> id + 5]),
            Node("TypeSpec", "", [Doc |-> NIL, Name |-> id + 1,
                                  Type |-> id + 6, Comment |-> NIL]),
            Node("GenDecl", "", [Doc |-> NIL, Specs |-> <<id + 7>>]) >>

\* func f() { type T interface { NAME() } }
LocalDecl(h, typeName, name) ==
    LET g == InterfaceDecl(h, typeName, name)
        id == Len(g)
    IN  g \o << Node("DeclStmt", "", [Decl |-> id]),
                Node("BlockStmt", "", [List |-> <<id + 1>>]),
                Node("Ident", "f", NoSlots),
                FuncTypeNode,
                FuncDeclNode(NIL, id + 3, id + 4, id + 2) >>

\* func NAME(): a function declared without a body
ExternDecl(h, name) ==
    LET id == Len(h) IN
    h \o << Node("Ident", name, NoSlots),
            FuncTypeNode,
            FuncDeclNode(NIL, id + 1, id + 2, NIL) >>

MainDecl(h, stmt) ==
    LET b == Build(h, stmt)
        id == Len(b.h)
    IN  b.h \o << Node("BlockStmt", "", [List |-> <<b.id>>]),
                  Node("Ident", "main", NoSlots),
                  FuncTypeNode,
                  FuncDeclNode(NIL, id + 2, id + 3, id + 1) >>

(***************************************************************************)
(* The preludes: the operator methods of the sample programs               *)
(*   func (a Point) +(b Point) Point        point.go:15                    *)
(*   type Adder interface { +(Point) Point } point.go:19-21                *)
(*   func (x *Vector) [] (i int) T          matrix.go:30                   *)
(*   func (x *Vector) []= (i int, t T)      matrix.go:31                   *)
(* with a type Reader that has the method [] alone ("ops"); the method of   *)
(* Point declared under its ordinary name ADD__ ("named"); an ordinary     *)
(* method only, func (x *Vector) Len() int, matrix.go:29 ("plain"); and    *)
(* no declaration but func main ("none").                                  *)
(***************************************************************************)
Preludes == {"ops", "named", "plain"}

RECURSIVE BuildDecls(_, _, _)

\* result: [h |-> heap, ids |-> the declarations]
BuildDecls(h, ds, ids) ==
    IF ds = <<>> THEN [h |-> h, ids |-> ids]
    ELSE LET d == Head(ds)
             h1 == IF d[1] = "method" THEN MethodDecl(h, d[2], d[3])
                   ELSE IF d[1] = "extern" THEN ExternDecl(h, d[3])
                   ELSE IF d[1] = "local" THEN LocalDecl(h, d[2], d[3])
                   ELSE InterfaceDecl(h, d[2], d[3])
         IN  BuildDecls(h1, Tail(ds), Append(ids, Len(h1)))

PreludeDecls(p) ==
    CASE p = "ops" ->
           << <<"method", "Point", "+">>, <<"interface", "Adder", "+">>,
              <<"method", "Vector", "[]">>, <<"method", "Vector", "[]=">>,
              <<"method", "Reader", "[]">> >>
      [] p = "named" -> << <<"method", "Point", "ADD__">> >>
      [] p = "plain" -> << <<"method", "Vector", "Len">> >>
      [] p = "extern" -> << <<"extern", "", "f">> >>
      [] p \in {"none", "package"} -> <<>>

\* the names of the files of a package
FileNames == <<"a.go", "b.go">>

\* result: [h |-> heap, file |-> the *ast.File, root |-> the node given to
\* Apply].  The file goes on its own, or ("package") as a.go in a
\* *ast.Package beside a file b.go without declarations.
BuildProgram(prog) ==
    LET d == BuildDecls(<<>>, PreludeDecls(prog.prelude), <<>>)
        m == MainDecl(d.h, prog.stmt)
        id == Len(m)
        h == m \o << Node("Ident", "main", NoSlots),
                     Node("File", "", [Doc |-> NIL, Name |-> id + 1,
                                       Decls |-> Append(d.ids, id)]) >>
    IN  IF prog.prelude = "package"
        THEN [h |-> h \o << Node("Ident", "main", NoSlots),
                            Node("File", "", [Doc |-> NIL, Name |-> id + 3,
                                              Decls |-> <<>>]),
                            Node("Package", "",
                                 (FileNames[1] :> id + 2) @@
                                 (FileNames[2] :> id + 4)) >>,
              file |-> id + 2, root |-> id + 5]
        ELSE [h |-> h, file |-> id + 2, root |-> id + 2]

\* the statement of func main (the last declaration of the file)
MainStmt(h, f) ==
    LET decls == h[f].f.Decls
        body == h[decls[Len(decls)]].f.Body
    IN  h[body].f.List[1]

(***************************************************************************)
(* typecheck (mogo.go:113-118): go/types on the file.  The variables of    *)
(* the sample programs and their declared types:                           *)
(*   a, b Point (point.go:24-25)   sum Adder (point.go:31)                 *)
(*   x, y *Vector (matrix.go:34)   i int, t T (matrix.go:38-39)            *)
(*   r Reader                                                              *)
(* T and int are one numeric type here, with the built-in operators.       *)
(* "" is the invalid type: go/types records nothing for an expression it   *)
(* could not type, and nothing usable as a receiver for a call without a   *)
(* result.                                                                 *)
(***************************************************************************)
VarType ==
    ("a" :> "Point") @@ ("b" :> "Point") @@ ("sum" :> "Adder") @@
    ("x" :> "Vector") @@ ("y" :> "Vector") @@ ("r" :> "Reader") @@
    ("i" :> "int") @@ ("t" :> "int")

\* the signatures of the operator methods (point.go:15, matrix.go:29-31)
Sig ==
    ("ADD__" :> [params |-> <<"Point">>, result |-> "Point"]) @@
    ("AT__" :> [params |-> <<"int">>, result |-> "int"]) @@
    ("ATSET__" :> [params |-> <<"int", "int">>, result |-> ""]) @@
    ("Len" :> [params |-> <<>>, result |-> "int"])

\* the binary operators go/types accepts on the numeric type
NativeOps == {"+", "-", "*", "/", "%"}

\* the method sets of the package: <<type, method name>>
MethodSets(h, f) ==
    LET decls == {h[f].f.Decls[k] : k \in 1..Len(h[f].f.Decls)}
        methods ==
            {<<h[h[h[h[d].f.Recv].f.List[1]].f.Type].name, h[h[d].f.Name].name>> :
                d \in {e \in decls : h[e].kind = "FuncDecl" /\ h[e].f.Recv # NIL}}
        specs ==
            UNION {{h[d].f.Specs[k] : k \in 1..Len(h[d].f.Specs)} :
                     d \in {e \in decls : h[e].kind = "GenDecl"}}
        ifaces ==
            UNION {LET fl == h[h[h[sp].f.Type].f.Methods].f.List
                   IN  {<<h[h[sp].f.Name].name, h[h[fl[k]].f.Names[1]].name>> :
                          k \in 1..Len(fl)} :
                     sp \in {e \in specs : /\ h[e].kind = "TypeSpec"
                                           /\ h[h[e].f.Type].kind = "InterfaceType"}}
    IN  methods \cup ifaces

EmptyMap == [x \in {} |-> ""]

\* the result of checking an expression: its type, the types recorded for
\* it and its subexpressions, and whether an error was reported
Typed(n, t, m, e) ==
    [t |-> t, m |-> IF t = "" THEN m ELSE (n :> t) @@ m, e |-> e]

NoExprs == [ts |-> <<>>, m |-> EmptyMap, e |-> FALSE]

CheckIdent(n, t) == Typed(n, t, EmptyMap, t = "")

CheckBinary(n, op, x, y) ==
    IF x.t = "int" /\ y.t = "int" /\ op \in NativeOps
    THEN Typed(n, "int", x.m @@ y.m, x.e \/ y.e)
    ELSE Typed(n, "", x.m @@ y.m, TRUE)

\* no variable of the programs has a type the built-in index expression
\* applies to
CheckIndex(n, x, y) == Typed(n, "", x.m @@ y.m, TRUE)

CheckMethodCall(n, pk, x, meth, args) ==
    IF LookupFieldOrMethod(pk, x.t, meth) /\ meth \in DOMAIN Sig
    THEN Typed(n, Sig[meth].result, x.m @@ args.m,
               x.e \/ args.e \/ args.ts # Sig[meth].params)
    ELSE Typed(n, "", x.m @@ args.m, TRUE)

CheckPrintln(n, args) ==
    Typed(n, "", args.m, args.e \/ \E k \in 1..Len(args.ts) : args.ts[k] = "")

RECURSIVE CheckExpr(_, _, _)
RECURSIVE CheckExprs(_, _, _, _)

\* checking the next expression of a list adds x to the result acc
CheckNext(acc, x) ==
    [ts |-> Append(acc.ts, x.t), m |-> x.m @@ acc.m, e |-> acc.e \/ x.e]

\* result: [ts |-> types, m |-> recorded types, e |-> error reported]
CheckExprs(h, pk, ns, acc) ==
    IF ns = <<>> THEN acc
    ELSE CheckExprs(h, pk, Tail(ns), CheckNext(acc, CheckExpr(h, pk, Head(ns))))

CheckExpr(h, pk, n) ==
    CASE h[n].kind = "Ident" ->
           CheckIdent(n, IF h[n].name \in DOMAIN VarType
                         THEN VarType[h[n].name] ELSE "")
      [] h[n].kind = "BinaryExpr" ->
           CheckBinary(n, h[n].name, CheckExpr(h, pk, h[n].f.X),
                       CheckExpr(h, pk, h[n].f.Y))
      [] h[n].kind = "IndexExpr" ->
           CheckIndex(n, CheckExpr(h, pk, h[n].f.X),
                      CheckExpr(h, pk, h[n].f.Index))
      [] h[n].kind = "CallExpr" ->
           IF h[h[n].f.Fun].kind = "SelectorExpr"
           THEN CheckMethodCall(n, pk, CheckExpr(h, pk, h[h[n].f.Fun].f.X),
                                h[h[h[n].f.Fun].f.Sel].name,
                                CheckExprs(h, pk, h[n].f.Args, NoExprs))
           ELSE IF h[h[n].f.Fun].kind = "Ident" /\ h[h[n].f.Fun].name = "println"
           THEN CheckPrintln(n, CheckExprs(h, pk, h[n].f.Args, NoExprs))
           ELSE Typed(n, "", EmptyMap, TRUE)
      [] OTHER -> Typed(n, "", EmptyMap, TRUE)

CheckExprStmt(h, n, x) ==
    [m |-> x.m, e |-> x.e \/ h[h[n].f.X].kind # "CallExpr"]

CheckAssign(h, n, l, r) ==
    [m |-> l.m @@ r.m,
     e |-> \/ l.e \/ r.e
           \/ \E k \in 1..Len(h[n].f.Lhs) :
                  h[h[n].f.Lhs[k]].kind \notin {"Ident", "IndexExpr"}
           \/ l.ts # r.ts
           \/ \E k \in 1..Len(l.ts) : l.ts[k] = ""
           \/ h[n].name # "=" /\ (Len(l.ts) # 1 \/ l.ts[1] # "int")]

\* result: [m |-> recorded types, e |-> error reported]
CheckStmt(h, pk, n) ==
    CASE h[n].kind = "ExprStmt" ->
           CheckExprStmt(h, n, CheckExpr(h, pk, h[n].f.X))
      [] h[n].kind = "AssignStmt" ->
           CheckAssign(h, n, CheckExprs(h, pk, h[n].f.Lhs, NoExprs),
                       CheckExprs(h, pk, h[n].f.Rhs, NoExprs))
      [] OTHER -> [m |-> EmptyMap, e |-> TRUE]

TypecheckResult(c, pk) == [err |-> c.e, tmap |-> c.m, pkg |-> pk]

\* result: [err |-> err != nil, tmap |-> info.Types, pkg |-> the package]
typecheck(h, f) ==
    TypecheckResult(CheckStmt(h, MethodSets(h, f), MainStmt(h, f)),
                    MethodSets(h, f))

(***************************************************************************)
(* The programs given to mogo: every statement with at most MaxOps         *)
(* operator expressions over the variables a, x, r, i (Point, *Vector,     *)
(* Reader, int), and the statements of the sample programs.                *)
(***************************************************************************)
RecvLeaves == {Id("a"), Id("x"), Id("r"), Id("i")}
ArgLeaves == {Id("i"), Id("a")}

RECURSIVE Exprs(_, _)

\* the expressions with exactly k operators, for an operand position
Exprs(k, leaves) ==
    IF k = 0 THEN leaves
    ELSE UNION {
           {Bin("+", x, y) : x \in Exprs(j, RecvLeaves),
                             y \in Exprs(k - 1 - j, ArgLeaves)}
           \cup
           {Idx(x, y) : x \in Exprs(j, RecvLeaves),
                        y \in Exprs(k - 1 - j, ArgLeaves)}
           : j \in 0..(k - 1)}

\* an assignment with nl targets and nr sources
AssignForm(nl, nr, l, r) ==
    Assign("=", IF nl = 1 THEN <<l>> ELSE <<l, Id("i")>>,
                IF nr = 1 THEN <<r>> ELSE <<r, Id("i")>>)

Generated ==
    UNION {{Println(e) : e \in Exprs(k, RecvLeaves)} : k \in 0..MaxOps}
    \cup
    UNION {UNION {{AssignForm(nl, nr, l, r) :
                      l \in Exprs(j, RecvLeaves), r \in Exprs(k - j, ArgLeaves)} :
                    j \in 0..k} :
             k \in 0..MaxOps, nl \in 1..2, nr \in 1..2}

\* point.go:28, 32, 35 and matrix.go:40, and a compound assignment to an
\* element: x[i] += i
Chain == Bin("+", Bin("+", Bin("+", Id("a"), Id("b")), Id("a")), Id("b"))

\* an operator expression as the right operand of another: a + (a + b)
RightNested == Bin("+", Id("a"), Bin("+", Id("a"), Id("b")))

Samples ==
    { Println(Bin("+", Id("a"), Id("b"))),
      Println(Bin("+", Id("sum"), Id("b"))),
      Println(Chain),
      Assign("+=", <<Id("t")>>,
             <<Bin("*", Idx(Id("x"), Id("i")), Idx(Id("y"), Id("i")))>>),
      Assign("+=", <<Idx(Id("x"), Id("i"))>>, <<Id("i")>>),
      Println(RightNested) }

Programs ==
    {[prelude |-> p, stmt |-> s] : p \in Preludes, s \in Generated \cup Samples}

NoCallbacks ==
    [pre |-> "nil", post |-> "nil", preFalse |-> {}, postFalse |-> {},
     faultAt |-> NIL, faultIn |-> "", setAt |-> NIL, setIn |-> "",
     order |-> <<>>]

(***************************************************************************)
(* main (mogo.go:31-111).                                                  *)
(***************************************************************************)
Init ==
    /\ input \in Programs
    /\ heap = BuildProgram(input).h
    /\ file = BuildProgram(input).file
    /\ pc = "normalize"
    /\ progress = FALSE
    /\ err = FALSE
    /\ pkg = {}
    /\ tmap = EmptyMap
    /\ sweeps = 0
    /\ nrep = 0
    /\ cb = NoCallbacks
    /\ trace = <<>>
    /\ sets = <<>>
    /\ ret = NIL
    /\ outcome = ""

\* mogo.go:38-63: the normalizer pass, then progress := true
NormalizeDone(r) ==
    /\ heap' = r.st.heap
    /\ pc' = IF r.how = "panic" THEN "panic" ELSE "typecheck"

Normalize ==
    /\ pc = "normalize"
    /\ \E r \in {Apply(heap, file, "normalize", "nil", {}, EmptyMap, NoCallbacks)} :
           NormalizeDone(r)
    /\ progress' = TRUE
    /\ UNCHANGED <<file, input, err, pkg, tmap, sweeps, nrep, cb, trace, sets,
                   ret, outcome>>

\* mogo.go:64
TypecheckDone(r) ==
    /\ err' = r.err
    /\ pkg' = r.pkg
    /\ tmap' = r.tmap

Typecheck ==
    /\ pc = "typecheck"
    /\ \E r \in {typecheck(heap, file)} : TypecheckDone(r)
    /\ pc' = "test"
    /\ UNCHANGED <<heap, file, input, progress, sweeps, nrep, cb, trace, sets,
                   ret, outcome>>

\* a loop that stops only once both reasons to stop hold
LoopExitOnBoth == ~err /\ ~progress

\* mogo.go:65
LoopExit == ~err \/ ~progress

\* mogo.go:65-67
Break ==
    /\ pc = "test"
    /\ LoopExit
    /\ pc' = "done"
    /\ UNCHANGED <<heap, file, input, progress, err, pkg, tmap, sweeps, nrep,
                   cb, trace, sets, ret, outcome>>

\* a sweep without the reset of progress in front of it
SweepDoneKeepsProgress(r) ==
    /\ heap' = r.st.heap
    /\ progress' = (progress \/ r.st.progress)
    /\ nrep' = r.st.nrep
    /\ trace' = r.st.trace
    /\ sets' = r.st.sets
    /\ pc' = IF r.how = "panic" THEN "panic" ELSE "typecheck"

\* mogo.go:68-99: progress = false, then one sweep
SweepDone(r) ==
    /\ heap' = r.st.heap
    /\ progress' = r.st.progress
    /\ nrep' = r.st.nrep
    /\ trace' = r.st.trace
    /\ sets' = r.st.sets
    /\ pc' = IF r.how = "panic" THEN "panic" ELSE "typecheck"

Sweep ==
    /\ pc = "test"
    /\ ~LoopExit
    /\ sweeps < MaxSweeps
    /\ \E r \in {Apply(heap, file, "rewrite", "rewrite", pkg, tmap, NoCallbacks)} :
           SweepDone(r)
    /\ sweeps' = sweeps + 1
    /\ UNCHANGED <<file, input, err, pkg, tmap, cb, ret, outcome>>

Next == Normalize \/ Typecheck \/ Break \/ Sweep

Spec == Init /\ [][Next]_vars

\* main stands at a statement it can execute: the guards of Next (every
\* step of Next changes pc, and Apply and typecheck are total)
MainRuns ==
    \/ pc \in {"normalize", "typecheck"}
    \/ pc = "test" /\ (LoopExit \/ sweeps < MaxSweeps)

\* main runs on, no step of it waits for anything: weak fairness of Next,
\* with ENABLED <<Next>>_vars written out as MainRuns
FairSpec == Spec /\ (<>[]MainRuns => []<><<Next>>_vars)

(***************************************************************************)
(* Apply on its own: a client calls Apply(root, pre, post) once on a       *)
(* parsed file, with callbacks of its own (either may be nil).             *)
(***************************************************************************)
ApplyPrograms ==
    {[prelude |-> "none", stmt |-> s] :
        s \in { Assign("=", <<Idx(Id("x"), Id("i"))>>,
                       <<Bin("+", Id("a"), Id("b"))>>),
                Println(Bin("+", Id("a"), Id("b"))) }}
    \cup
    {[prelude |-> p, stmt |-> Expr(Id("a"))] : p \in {"extern", "package"}}

\* the orders in which range n.Files can yield the files of a package
RangeOrders(prog) ==
    IF prog.prelude = "package"
    THEN {FileNames, <<FileNames[2], FileNames[1]>>}
    ELSE {<<>>}

\* one node or none
AtMostOne(nodes) == {{}} \cup {{n} : n \in nodes}

ClientCallbacks(nodes, orders) ==
    {c \in [pre : {"client", "nil"}, post : {"client", "nil"},
            preFalse : AtMostOne(nodes), postFalse : AtMostOne(nodes),
            faultAt : nodes \cup {NIL}, faultIn : {"", "pre", "post"},
            setAt : nodes \cup {NIL}, setIn : {"", "pre", "post"},
            order : orders] :
        /\ c.pre = "client" \/ c.post = "client"
        /\ c.pre = "nil" => c.preFalse = {} /\ c.faultIn # "pre" /\ c.setIn # "pre"
        /\ c.post = "nil" => c.postFalse = {} /\ c.faultIn # "post" /\ c.setIn # "post"
        /\ (c.faultAt = NIL) <=> (c.faultIn = "")
        /\ (c.setAt = NIL) <=> (c.setIn = "")
        /\ c.faultAt = NIL \/ c.setAt = NIL}

ApplyInit ==
    /\ input \in ApplyPrograms
    /\ heap = BuildProgram(input).h
    /\ file = BuildProgram(input).root
    /\ cb \in ClientCallbacks(1..Len(BuildProgram(input).h), RangeOrders(input))
    /\ pc = "call"
    /\ progress = FALSE
    /\ err = FALSE
    /\ pkg = {}
    /\ tmap = EmptyMap
    /\ sweeps = 0
    /\ nrep = 0
    /\ trace = <<>>
    /\ sets = <<>>
    /\ ret = NIL
    /\ outcome = ""

ApplyDone(r) ==
    /\ heap' = r.st.heap
    /\ trace' = r.st.trace
    /\ sets' = r.st.sets
    /\ nrep' = r.st.nrep
    /\ ret' = r.ret
    /\ outcome' = r.how
    /\ pc' = IF r.how = "panic" THEN "panicked" ELSE "returned"

\* tree = ast.Apply(file, pre, post)
ApplyCall ==
    /\ pc = "call"
    /\ \E r \in {Apply(heap, file, cb.pre, cb.post, {}, EmptyMap, cb)} :
           ApplyDone(r)
    /\ UNCHANGED <<file, input, progress, err, pkg, tmap, sweeps, cb>>

ApplyNext == ApplyCall

ApplySpec == ApplyInit /\ [][ApplyNext]_vars

(***************************************************************************)
(* The normalizer pass on its own (mogo.go:38-60), on files of one to      *)
(* three declarations: a method, an interface type, a function without receiver  *)
(* and body, or a function whose body declares an interface type, each     *)
(* with an operator, a canonical or an ordinary name.                      *)
(***************************************************************************)
NormDecls ==
    {<<k, "T", nm>> : k \in {"method", "interface", "extern", "local"},
                      nm \in {"+", "[]=", "ADD__", "Len"}}

NormInputs ==
    {<<d>> : d \in NormDecls}
    \cup {<<d, e>> : d \in NormDecls, e \in NormDecls}
    \cup {<<d, e, g>> : d \in NormDecls, e \in NormDecls, g \in NormDecls}

\* result: [h |-> heap, file |-> the *ast.File]
NormFile(ds) ==
    LET d == BuildDecls(<<>>, ds, <<>>)
        id == Len(d.h)
    IN  [h |-> d.h \o << Node("Ident", "p", NoSlots),
                         Node("File", "", [Doc |-> NIL, Name |-> id + 1,
                                           Decls |-> d.ids]) >>,
         file |-> id + 2]

NormInit ==
    /\ input \in NormInputs
    /\ heap = NormFile(input).h
    /\ file = NormFile(input).file
    /\ pc = "normalize"
    /\ progress = FALSE
    /\ err = FALSE
    /\ pkg = {}
    /\ tmap = EmptyMap
    /\ sweeps = 0
    /\ nrep = 0
    /\ cb = NoCallbacks
    /\ trace = <<>>
    /\ sets = <<>>
    /\ ret = NIL
    /\ outcome = ""

NormNext == Normalize

NormSpec == NormInit /\ [][NormNext]_vars

(***************************************************************************)
(* Reading the tree.                                                       *)
(***************************************************************************)
Operators(h, n) ==
    {m \in Reach(h, n) : h[m].kind \in {"IndexExpr", "BinaryExpr"}}

\* the file as parsed
InputHeap == BuildProgram(input).h
InputStmt == MainStmt(InputHeap, file)

\* the index and binary expressions of the file as parsed, and now
InputOps == Cardinality(Operators(InputHeap, file))
OpCount == Cardinality(Operators(heap, file))

\* the statement of func main now, as a term
Stmt == Term(heap, MainStmt(heap, file))

C2_Protocol ==
    [][/\ pc' = "test" => pc = "typecheck"
       /\ sweeps' # sweeps => pc = "test" /\ pc' = "typecheck" /\ sweeps' = sweeps + 1
       /\ pc = "test" => (pc' = "done" <=> (~err \/ (sweeps > 0 /\ nrep = 0)))
       /\ (pc = "test" /\ pc' # "done") =>
              /\ sweeps' = sweeps + 1
              /\ progress' <=> nrep' > 0]_vars

C2_Witness == pc = "done" /\ err /\ sweeps >= 2 /\ nrep = 0

(***************************************************************************)
(* C3, as claimed: the loop runs at most as many sweeps as the input has   *)
(* index and binary expressions.                                           *)
(***************************************************************************)
C3_AsClaimed == sweeps <= InputOps

(***************************************************************************)
(* C3, amended: the loop runs at most one sweep more than the input has    *)
(* index and binary expressions.                                           *)
(***************************************************************************)
C3_SweepBound == sweeps <= InputOps + 1

C3_Witness == pc = "done" /\ InputOps >= 1 /\ sweeps = InputOps + 1

(***************************************************************************)
(* C4: for a + b + a + b with + declared on Point the loop stops with no   *)
(* error and the statement is ((a.ADD__(b)).ADD__(a)).ADD__(b).            *)
(***************************************************************************)
ChainCalls ==
    Call(Sel(Call(Sel(Call(Sel(Id("a"), "ADD__"), <<Id("b")>>), "ADD__"),
                  <<Id("a")>>), "ADD__"), <<Id("b")>>)

IsChainInput == input.prelude = "ops" /\ input.stmt = Println(Chain)

C4_Chain ==
    (IsChainInput /\ pc = "done") => (~err /\ Stmt = Println(ChainCalls))

C4_Witness == IsChainInput /\ pc = "done" /\ sweeps = 3

(***************************************************************************)
(* C5, as claimed: the target of an assignment with one target and one     *)
(* source is never a call of the [] method AT__.                           *)
(***************************************************************************)
IsReadCall(h, n) ==
    /\ h[n].kind = "CallExpr"
    /\ h[h[n].f.Fun].kind = "SelectorExpr"
    /\ h[h[h[n].f.Fun].f.Sel].name = methName["[]"]

C5_NeverConfused ==
    \A n \in Reach(heap, file) :
        (heap[n].kind = "AssignStmt" /\ Len(heap[n].f.Lhs) = 1
            /\ Len(heap[n].f.Rhs) = 1)
            => ~IsReadCall(heap, heap[n].f.Lhs[1])

(***************************************************************************)
(* C6: an assignment with more than one target or more than one source     *)
(* stays where the parser put it.                                          *)
(***************************************************************************)
IsMultiAssign(t) == t[1] = "AssignStmt" /\ (Len(t[3]) # 1 \/ Len(t[4]) # 1)

C6_MultiAssignKept ==
    IsMultiAssign(input.stmt) =>
        /\ MainStmt(heap, file) = InputStmt
        /\ heap[InputStmt].kind = "AssignStmt"
        /\ Len(heap[InputStmt].f.Lhs) = Len(input.stmt[3])
        /\ Len(heap[InputStmt].f.Rhs) = Len(input.stmt[4])

C6_Witness ==
    /\ input.prelude = "ops"
    /\ input.stmt \in {AssignForm(nl, nr, Idx(Id("x"), Id("i")), Id("i")) :
                          nl \in 1..2, nr \in 1..2}
    /\ IsMultiAssign(input.stmt)
    /\ pc = "done"
    /\ sweeps >= 1

(***************************************************************************)
(* C7.  The premise: no method is declared under an operator symbol, and   *)
(* no index expression, binary expression or element write of the file     *)
(* has a receiver with a method for it.                                    *)
(***************************************************************************)
NoOperatorDecl ==
    \A n \in Reach(InputHeap, file) :
        InputHeap[n].kind = "Ident" => InputHeap[n].name \notin DOMAIN methName

Matches(h, tc, n) ==
    \/ /\ h[n].kind = "IndexExpr"
       /\ LookupFieldOrMethod(tc.pkg, TypeAt(tc.tmap, h[n].f.X), methName["[]"])
    \/ /\ h[n].kind = "BinaryExpr"
       /\ h[n].name \in DOMAIN methName
       /\ LookupFieldOrMethod(tc.pkg, TypeAt(tc.tmap, h[n].f.X), methName[h[n].name])
    \/ /\ h[n].kind = "AssignStmt"
       /\ Len(h[n].f.Lhs) = 1 /\ Len(h[n].f.Rhs) = 1
       /\ h[h[n].f.Lhs[1]].kind = "IndexExpr"
       /\ LookupFieldOrMethod(tc.pkg, TypeAt(tc.tmap, h[h[n].f.Lhs[1]].f.X),
                              methName["[]="])

NoMatchIn(h, tc) == \A n \in Reach(h, file) : ~Matches(h, tc, n)

NoMatchingShape == NoMatchIn(InputHeap, typecheck(InputHeap, file))

(***************************************************************************)
(* C7, as claimed: under the premise the tree stays as parsed, no sweep    *)
(* runs and the first type check succeeds.                                 *)
(***************************************************************************)
C7_AsClaimed ==
    (NoOperatorDecl /\ NoMatchingShape) =>
        /\ heap = InputHeap
        /\ sweeps = 0
        /\ pc \in {"test", "done"} => ~err

(***************************************************************************)
(* C7, amended: under the premise the tree stays as parsed; no sweep runs  *)
(* when the first type check succeeds, and otherwise exactly one sweep     *)
(* runs, it replaces nothing, and the loop stops with the error left.      *)
(***************************************************************************)
C7_NoOp ==
    (NoOperatorDecl /\ NoMatchingShape) =>
        /\ heap = InputHeap
        /\ nrep = 0
        /\ sweeps <= 1
        /\ pc = "done" => (err <=> sweeps = 1)

C7_Witness ==
    /\ NoOperatorDecl /\ NoMatchingShape
    /\ InputOps >= 1
    /\ pc = "done"
    /\ ~err
    /\ sweeps = 0

(***************************************************************************)
(* Reading the trace of a call of Apply.                                   *)
(***************************************************************************)
\* the i-th callback call panicked: by itself, or in its call of SetField
\* (for a file of a Package)
FaultAt(i) ==
    /\ trace[i].n > 0
    /\ \/ trace[i].cb = cb.faultIn /\ trace[i].n = cb.faultAt
       \/ /\ trace[i].cb = cb.setIn /\ trace[i].n = cb.setAt
          /\ trace[i].parent # APP
          /\ InputHeap[trace[i].parent].kind = "Package"

\* the i-th callback call was post and returned false
PostFalseAt(i) ==
    /\ trace[i].cb = "post"
    /\ trace[i].n \in cb.postFalse
    /\ ~FaultAt(i)

\* the i-th callback call was pre and returned false
PreFalseAt(i) ==
    /\ trace[i].cb = "pre"
    /\ trace[i].n \in cb.preFalse
    /\ ~FaultAt(i)

Finished == pc \in {"returned", "panicked"}

(***************************************************************************)
(* C8: once post has returned false no callback is called any more and     *)
(* Apply returns to its caller without a panic; a panic of a callback      *)
(* ends the traversal as well and reaches the caller of Apply.             *)
(***************************************************************************)
C8_Abort ==
    Finished =>
        \A i \in 1..Len(trace) :
            /\ PostFalseAt(i) => (i = Len(trace) /\ outcome = "return")
            /\ FaultAt(i) => (i = Len(trace) /\ outcome = "panic")

C8_Witness ==
    /\ pc = "returned"
    /\ cb.pre = "client"
    /\ Len(trace) >= 3
    /\ PostFalseAt(Len(trace))
    /\ \E n \in Reach(heap, file) :
           \A i \in 1..Len(trace) : trace[i].n # n

(***************************************************************************)
(* C9: when pre returns false for a node no callback is called for a node  *)
(* below it, post is not called for it, and every other call is made as    *)
(* it is made when pre returns true there.                                 *)
(***************************************************************************)
\* the callbacks cb with pre returning true everywhere
PreTrue == [cb EXCEPT !.preFalse = {}]

\* the call of Apply on the same file when pre returns true everywhere,
\* and the calls it makes
FullRun == Apply(InputHeap, file, cb.pre, cb.post, {}, EmptyMap, PreTrue).st

FullTrace == FullRun.trace

\* the nodes below and including the nodes in ns, as parsed
Below(ns) == UNION {Reach(InputHeap, n) : n \in ns}

\* a call for a node below a node of ns, or post for a node of ns
Skipped(e, ns) == e.parent \in Below(ns) \/ (e.cb = "post" /\ e.n \in ns)

C9_Skip ==
    Finished =>
        \A i \in 1..Len(trace) :
            PreFalseAt(i) =>
                /\ \A j \in 1..Len(trace) : ~Skipped(trace[j], {trace[i].n})
                /\ (FullRun.status = "run"
                        \/ ~Skipped(FullTrace[Len(FullTrace)], {trace[i].n}))
                    => trace = SelectSeq(FullTrace,
                                         LAMBDA e : ~Skipped(e, {trace[i].n}))

C9_Witness ==
    /\ pc = "returned"
    /\ cb.post = "client"
    /\ \E i \in 1..Len(trace) :
           /\ PreFalseAt(i)
           /\ i < Len(trace)
           /\ trace[i].name = "Lhs"
           /\ Children(InputHeap, trace[i].n) # {}
           /\ Len(trace) < Len(FullTrace)
           /\ trace[Len(trace)].n = file

(***************************************************************************)
(* C10, as claimed: whenever Apply returns, its result is the tree: the    *)
(* root it was given, or the node a callback has put in the root's place.  *)
(***************************************************************************)
RootReplaced ==
    /\ cb.setAt = file
    /\ \E i \in 1..Len(trace) : trace[i].n = file /\ trace[i].cb = cb.setIn

ExpectedTree == IF RootReplaced THEN Len(InputHeap) + 1 ELSE file

C10_ReturnsTree == pc = "returned" => ret = ExpectedTree

(***************************************************************************)
(* C11, as claimed: at every call of a callback the field named by         *)
(* (parent, name, index) holds the node n the callback is given.           *)
(***************************************************************************)
\* the field named by the call's arguments holds the call's node (a nil
\* pointer is held as the nil of the field)
Addresses(e) == e.at = e.n \/ (e.at = NIL /\ e.n <= 0)

C11_AsClaimed == \A i \in 1..Len(trace) : Addresses(trace[i])

(***************************************************************************)
(* C11, amended: the field holds n at every call of pre; at a call of      *)
(* post it holds n unless the pre call for n put another node there with   *)
(* SetField, and then it holds that node.                                  *)
(***************************************************************************)
\* the k-th SetField call was made by the pre call for the node and the
\* field of the i-th call
SetInPreOf(k, i) ==
    /\ sets[k].when \in 1..(i - 1)
    /\ trace[sets[k].when].cb = "pre"
    /\ trace[sets[k].when].n = trace[i].n
    /\ sets[k].parent = trace[i].parent
    /\ sets[k].name = trace[i].name
    /\ sets[k].index = trace[i].index

C11_Locator ==
    \A i \in 1..Len(trace) :
        /\ trace[i].cb = "pre" => Addresses(trace[i])
        /\ trace[i].cb = "post" =>
              \/ Addresses(trace[i])
                   /\ \A k \in 1..Len(sets) : ~SetInPreOf(k, i)
              \/ \E k \in 1..Len(sets) :
                     SetInPreOf(k, i) /\ trace[i].at = sets[k].n1

C11_Witness ==
    /\ pc = "returned"
    /\ \E i \in 1..Len(trace) : trace[i].cb = "post" /\ ~Addresses(trace[i])
    /\ \E i \in 1..Len(trace) : trace[i].cb = "post" /\ trace[i].n < 0
    /\ \E i \in 1..Len(trace) : trace[i].cb = "post" /\ trace[i].index >= 0

(***************************************************************************)
(* C12, as claimed: a call SetField(parent, name, index, n1) at a locator  *)
(* Apply has passed puts n1 there and changes nothing else, also when the  *)
(* parent is the root's holder or a Package.                               *)
(***************************************************************************)
\* the nodes of h with n1 at the locator of the SetField call c
WithSet(h, c) ==
    IF c.parent = APP THEN h
    ELSE IF c.index >= 0
    THEN [h EXCEPT ![c.parent].f[c.name][c.index + 1] = c.n1]
    ELSE [h EXCEPT ![c.parent].f[c.name] = c.n1]

\* the nodes the parser made, as they are now
Parsed == SubSeq(heap, 1, Len(InputHeap))

C12_SetFieldFrame ==
    (Finished /\ Len(sets) = 1) =>
        /\ Parsed = WithSet(InputHeap, sets[1])
        /\ (sets[1].parent = APP /\ pc = "returned" /\ ret # NIL)
              => ret = sets[1].n1

(***************************************************************************)
(* C13: in one traversal every callback for the left operand of a binary   *)
(* expression and for the nodes below it, and every replacement of the     *)
(* left operand, comes before the first callback for the right operand;    *)
(* the children of a node of any kind but Package are visited in the       *)
(* order of the slots of the kind's case in apply.  The files of a Package *)
(* are visited in the order range yields the Files map, which is not       *)
(* fixed.                                                                  *)
(***************************************************************************)
\* the place of the slot an event names among the slots of its parent
SlotIndex(e) ==
    IF KindOf(heap, e.parent) = "Package"
    THEN CHOOSE k \in 1..Len(FileNames) : FileNames[k] = e.name
    ELSE CHOOSE k \in 1..Len(SlotTab[KindOf(heap, e.parent)]) :
             SlotTab[KindOf(heap, e.parent)][k][1] = e.name

\* events e1, e2 of one parent, e1 called first, are in slot order
InOrder(e1, e2) ==
    \/ SlotIndex(e1) < SlotIndex(e2)
    \/ SlotIndex(e1) = SlotIndex(e2) /\ e1.index <= e2.index

\* the slot order holds among the children of the parents of the given kinds
SlotOrder(kinds) ==
    \A i, j \in 1..Len(trace) :
        (/\ i < j
         /\ trace[i].parent # APP
         /\ trace[i].parent = trace[j].parent
         /\ KindOf(heap, trace[i].parent) \in kinds) =>
            InOrder(trace[i], trace[j])

\* event j is a callback for the right operand of a binary expression
ForRight(j) ==
    /\ trace[j].parent # APP
    /\ KindOf(heap, trace[j].parent) = "BinaryExpr"
    /\ trace[j].name = "Y"

\* nothing at or below the left operand happens from event j on
LeftDone(j) ==
    /\ \A i \in j..Len(trace) :
           /\ ~(trace[i].parent = trace[j].parent /\ trace[i].name = "X")
           /\ trace[i].n \notin
                  Reach(InputHeap, InputHeap[trace[j].parent].f["X"])
    /\ \A k \in 1..Len(sets) :
           (sets[k].parent = trace[j].parent /\ sets[k].name = "X")
               => sets[k].when < j

C13_AsClaimed == SlotOrder(DOMAIN SlotTab \cup {"Package"})

C13_LeftFirst ==
    /\ SlotOrder(DOMAIN SlotTab)
    /\ \A j \in 1..Len(trace) : ForRight(j) => LeftDone(j)

C13_Witness ==
    /\ pc = "returned"
    /\ \E k \in 1..Len(sets), j \in 1..Len(trace) :
           /\ ForRight(j)
           /\ sets[k].parent = trace[j].parent
           /\ sets[k].name = "X"
           /\ trace[sets[k].when].cb = "post"

(***************************************************************************)
(* C14, as claimed: for an absent (nil) child pre is called, then post     *)
(* when pre returned true, nothing is descended into, and the traversal    *)
(* goes on without a panic, whatever the kind of the node and the slot.    *)
(***************************************************************************)
\* the i-th callback call is pre for an absent child
PreForAbsent(i) == trace[i].cb = "pre" /\ trace[i].n <= 0

C14_AbsentChild ==
    /\ \A i \in 1..Len(trace) :
           (PreForAbsent(i) /\ cb.post = "client") =>
               /\ i < Len(trace)
               /\ trace[i + 1] = [trace[i] EXCEPT !.cb = "post"]
    /\ pc = "panicked" => \E i \in 1..Len(trace) : FaultAt(i)

(***************************************************************************)
(* C15: the normalizer pass is idempotent: run on the tree it has          *)
(* produced, it changes nothing; no canonical identifier is a key of       *)
(* methName.                                                               *)
(***************************************************************************)
\* the nodes after one more normalizer pass over the file
NormalizedAgain ==
    Apply(heap, file, "normalize", "nil", {}, EmptyMap, NoCallbacks).st.heap

C15_Idempotent ==
    /\ \A op \in DOMAIN methName : methName[op] \notin DOMAIN methName
    /\ (pc = "typecheck" /\ sweeps = 0) => NormalizedAgain = heap

C15_Witness ==
    /\ pc = "typecheck"
    /\ sweeps = 0
    /\ heap # InputHeap
    /\ NormalizedAgain = heap

(***************************************************************************)
(* C16: after the normalizer pass the method names of every interface type *)
(* that is not inside a function declaration, and the names of the         *)
(* function declarations with a receiver, are the canonical ones; every    *)
(* other identifier, the names of functions without receiver and the       *)
(* method names of interface types inside functions among them, is as      *)
(* parsed.                                                                 *)
(***************************************************************************)
\* the file as parsed
NormHeap == NormFile(input).h

\* the method names of the interface types among nodes
MethodNames(h, nodes) ==
    UNION {UNION {{h[fld].f.Names[j] : j \in 1..Len(h[fld].f.Names)} :
                    fld \in {h[h[n].f.Methods].f.List[k] :
                                k \in 1..Len(h[h[n].f.Methods].f.List)}} :
             n \in {m \in nodes : h[m].kind = "InterfaceType"}}

\* the names of the function declarations with a receiver
ReceiverNames(h, nodes) ==
    {h[n].f.Name : n \in {m \in nodes : h[m].kind = "FuncDecl" /\ h[m].f.Recv # NIL}}

\* the nodes inside function declarations
InFunctions(h, nodes) ==
    UNION {Reach(h, n) \ {n} : n \in {m \in nodes : h[m].kind = "FuncDecl"}}

\* h with the canonical name at the given identifiers
Renamed(h, idents) ==
    [i \in DOMAIN h |->
        IF i \in idents THEN [h[i] EXCEPT !.name = Canonical(h[i].name)]
        ELSE h[i]]

C16_AsClaimed ==
    pc = "typecheck" =>
        heap = Renamed(NormHeap,
                   MethodNames(NormHeap, Reach(NormHeap, file))
                   \cup ReceiverNames(NormHeap, Reach(NormHeap, file)))

C16_OutsideFunctions ==
    pc = "typecheck" =>
        heap = Renamed(NormHeap,
                   MethodNames(NormHeap,
                       Reach(NormHeap, file)
                       \ InFunctions(NormHeap, Reach(NormHeap, file)))
                   \cup ReceiverNames(NormHeap, Reach(NormHeap, file)))

C16_Witness ==
    /\ pc = "typecheck"
    /\ \E k \in ReceiverNames(heap, Reach(heap, file)) :
           NormHeap[k].name = "[]=" /\ heap[k].name = "ATSET__"
    /\ \E i \in MethodNames(heap, Reach(heap, file)
                                    \ InFunctions(heap, Reach(heap, file))) :
           NormHeap[i].name = "+" /\ heap[i].name = "ADD__"
    /\ \E j \in MethodNames(heap, InFunctions(heap, Reach(heap, file))) :
           heap[j].name = "+"

(***************************************************************************)
(* C17: println(r + b) is rewritten by the first sweep into                *)
(* println(r.ADD__(b)) exactly when the static type of r has the method    *)
(* ADD__, whether that type is the concrete type Point (r = a) or the      *)
(* interface type Adder that lists the method (r = sum); otherwise the     *)
(* statement stays as it is.                                               *)
(***************************************************************************)
OnReceiver(r) == Println(Bin("+", Id(r), Id("b")))

AsCall(r) == Println(Call(Sel(Id(r), methName["+"]), <<Id("b")>>))

C17_SameShape ==
    \A r \in {"a", "sum"} :
        (input.stmt = OnReceiver(r) /\ sweeps >= 1) =>
            Stmt = IF <<VarType[r], methName["+"]>> \in pkg
                   THEN AsCall(r) ELSE OnReceiver(r)

C17_Witness ==
    /\ input.stmt = OnReceiver("sum")
    /\ sweeps = 1
    /\ {<<"Point", "ADD__">>, <<"Adder", "ADD__">>} \subseteq pkg
    /\ Stmt = AsCall("sum")

(***************************************************************************)
(* C18, as claimed: an assignment whose token is not = is never replaced   *)
(* by a call of the []= method.                                            *)
(***************************************************************************)
C18_PlainOnly ==
    (input.stmt[1] = "AssignStmt" /\ input.stmt[2] # "=") =>
        /\ MainStmt(heap, file) = InputStmt
        /\ heap[InputStmt].kind = "AssignStmt"

(***************************************************************************)
(* C19, as claimed: when an operator expression is rewritten in a sweep,   *)
(* no operator expression that encloses it is rewritten in that sweep.     *)
(***************************************************************************)
\* in the last sweep, the k-th replacement was made inside the node that
\* the j-th replacement took out of the tree
Inside(k, j) == k # j /\ sets[k].parent \in Reach(heap, sets[j].old)

C19_AsClaimed == \A k, j \in 1..Len(sets) : ~Inside(k, j)

(***************************************************************************)
(* C19, amended: in one sweep no node is replaced twice, and an operator   *)
(* expression whose receiver (the operand X) has been replaced in the      *)
(* sweep is not rewritten in that sweep; an operator expression in the     *)
(* right operand or index is no obstacle.                                  *)
(***************************************************************************)
C19_ReceiverLevel ==
    \A k, j \in 1..Len(sets) :
        /\ k # j => sets[k].old # sets[j].old
        /\ ~(k < j /\ sets[k].parent = sets[j].old /\ sets[k].name = "X")

C19_Witness ==
    /\ IsChainInput
    /\ sweeps = 1
    /\ Len(sets) = 1
    /\ Stmt = Println(Bin("+", Bin("+", Call(Sel(Id("a"), "ADD__"), <<Id("b")>>),
                                Id("a")), Id("b")))

(***************************************************************************)
(* C20, as claimed: every replacement of a sweep is made in a parent that  *)
(* is reachable from the root when it is made.                             *)
(***************************************************************************)
C20_AsClaimed == \A k \in 1..Len(sets) : sets[k].attached

(***************************************************************************)
(* C20, amended: a replacement of a sweep is made in a parent reachable    *)
(* from the root and is in the tree after the sweep, unless it is made     *)
(* inside an assignment that the pre callback has replaced earlier in the  *)
(* sweep: apply goes on into the old assignment, the replacement is made   *)
(* in that detached statement and is not in the tree after the sweep.      *)
(* For x[i] = i with [] and []= declared this happens in the first sweep.  *)
(***************************************************************************)
\* nodes, with the nodes that the replacements of the sweep have taken out
\* of them
WithReplaced(nodes) ==
    nodes \cup UNION {Reach(heap, sets[m].old) :
                        m \in {i \in 1..Len(sets) : sets[i].parent \in nodes}}

RECURSIVE Original(_, _)

\* the nodes that were below those of nodes before the replacements of the
\* sweep (at most fuel of them, one inside the other)
Original(nodes, fuel) ==
    IF fuel = 0 THEN nodes ELSE Original(WithReplaced(nodes), fuel - 1)

\* the k-th replacement of the sweep was made inside the statement that
\* the j-th, made by the pre callback, had taken out of the tree
UnderReplaced(k, j) ==
    /\ j < k
    /\ trace[sets[j].when].cb = "pre"
    /\ sets[k].parent \in Original(Reach(heap, sets[j].old), Len(sets))

ElementWrite == Assign("=", <<Idx(Id("x"), Id("i"))>>, <<Id("i")>>)

C20_DetachedUnderPre ==
    /\ \A k \in 1..Len(sets) :
           IF sets[k].attached
           THEN sets[k].n1 \in Reach(heap, file)
           ELSE /\ \E j \in 1..Len(sets) : UnderReplaced(k, j)
                /\ sets[k].n1 \notin Reach(heap, file)
    /\ (input.prelude = "ops" /\ input.stmt = ElementWrite /\ sweeps = 1) =>
           (Len(sets) = 2 /\ ~sets[2].attached)

C20_Witness ==
    /\ input.prelude = "ops"
    /\ input.stmt = ElementWrite
    /\ sweeps = 1
    /\ sets[1].attached
    /\ UnderReplaced(2, 1)
    /\ Stmt = Expr(Call(Sel(Id("x"), "ATSET__"), <<Id("i"), Id("i")>>))

====
